---- MODULE Spec2Model ----
(***************************************************************************)
(* ERPNext MCP server (src/src/index.ts): the ERPNextClient backend client *)
(* and the request handlers registered on the MCP server.                  *)
(*                                                                         *)
(* JavaScript values are records tagged by their type (field t).  Strings  *)
(* are TLA+ strings, so templates and JSON texts are built by \o as the    *)
(* code builds them.  A handler runs from the arrival of its request to    *)
(* its first await of a backend HTTP call, and resumes when the backend    *)
(* answers.                                                                *)
(***************************************************************************)
EXTENDS Integers, Sequences, FiniteSets, TLC

VARIABLES
  erpnextUrl,     \* process.env.ERPNEXT_URL as read by the constructor
  baseUrl,        \* ERPNextClient.baseUrl, the baseURL of the axios instance
  exited,         \* the process has ended on an uncaught error
  handlers,       \* the request methods that have a handler registered
  connected,      \* the server is connected to the stdio transport
  doctypeCache,   \* the keys of the module's doctypeCache map
  frames,         \* the handlers in flight when requests overlap, by slot
  apiKey,         \* process.env.ERPNEXT_API_KEY as read by the constructor
  apiSecret,      \* process.env.ERPNEXT_API_SECRET as read by the constructor
  authenticated,  \* ERPNextClient.authenticated
  pc,             \* where the handler in flight is suspended
  request,        \* the protocol request being handled
  invoked,        \* the ERPNextClient operations the handler has invoked
  calls,          \* the HTTP requests the handler has issued, with their fate
  result,         \* what the awaited client operation produced (or threw)
  reply,          \* the reply given to the request
  httpCount       \* HTTP requests issued to the backend since start

vars == <<erpnextUrl, baseUrl, exited, handlers, connected, doctypeCache,
          frames, apiKey, apiSecret, authenticated, pc, request, invoked,
          calls, result, reply, httpCount>>

----------------------------------------------------------------------------
(* Bounds of the model *)

\* longest resource URI, in tokens after the scheme prefix
MaxUriLen == 5
\* requests are accepted while fewer than this many HTTP requests were issued
MaxHttp == 2
\* requests that may be in flight together
MaxInFlight == 2

----------------------------------------------------------------------------
(* JavaScript values *)

Undef == [t |-> "undefined"]
JNull == [t |-> "null"]
JStr(s) == [t |-> "string", s |-> s]
JNum(n) == [t |-> "number", n |-> n]
JArr(a) == [t |-> "array", a |-> a]
\* an object is the sequence of its own <<key, value>> pairs, in key order
JObj(kv) == [t |-> "object", kv |-> kv]

\* ToBoolean: what `!x`, `x && y`, `x || y` and `if (x)` test
Truthy(v) ==
  CASE v.t = "undefined" -> FALSE
    [] v.t = "null" -> FALSE
    [] v.t = "string" -> v.s # ""
    [] v.t = "number" -> v.n # 0
    [] OTHER -> TRUE

RECURSIVE JoinWith(_, _)
JoinWith(parts, sep) ==
  IF parts = <<>> THEN ""
  ELSE IF Len(parts) = 1 THEN parts[1]
  ELSE parts[1] \o sep \o JoinWith(Tail(parts), sep)

\* String(v), also what a template literal `${v}` inserts
RECURSIVE ToStr(_)
ToStr(v) ==
  CASE v.t = "undefined" -> "undefined"
    [] v.t = "null" -> "null"
    [] v.t = "string" -> v.s
    [] v.t = "number" -> ToString(v.n)
    [] v.t = "array" ->
         JoinWith([i \in 1..Len(v.a) |->
                     IF v.a[i].t \in {"undefined", "null"} THEN ""
                     ELSE ToStr(v.a[i])], ",")
    [] OTHER -> "[object Object]"

\* v[key] for a value v that is neither null nor undefined
Get(v, key) ==
  IF v.t = "object" /\ \E i \in 1..Len(v.kv) : v.kv[i][1] = key
  THEN v.kv[CHOOSE i \in 1..Len(v.kv) : v.kv[i][1] = key][2]
  ELSE Undef

\* reading a property of null or undefined throws a TypeError
Nullish(v) == v.t \in {"undefined", "null"}

\* the own properties JSON.stringify writes: undefined values are skipped
RECURSIVE Defined(_)
Defined(kv) ==
  IF kv = <<>> THEN <<>>
  ELSE IF kv[1][2].t = "undefined" THEN Defined(Tail(kv))
  ELSE <<kv[1]>> \o Defined(Tail(kv))

\* JSON.stringify(v) for a defined v
RECURSIVE JSONText(_)
JSONText(v) ==
  CASE v.t = "undefined" -> "null"
    [] v.t = "null" -> "null"
    [] v.t = "string" -> "\"" \o v.s \o "\""
    [] v.t = "number" -> ToString(v.n)
    [] v.t = "array" ->
         "[" \o JoinWith([i \in 1..Len(v.a) |-> JSONText(v.a[i])], ",") \o "]"
    [] OTHER ->
         LET kv == Defined(v.kv)
         IN "{" \o JoinWith([i \in 1..Len(kv) |->
                    "\"" \o kv[i][1] \o "\":" \o JSONText(kv[i][2])], ",") \o "}"

\* JSON.stringify(v, null, 2) for a defined v, at indentation ind
RECURSIVE JSONPretty(_, _)
JSONPretty(v, ind) ==
  CASE v.t = "undefined" -> "null"
    [] v.t = "null" -> "null"
    [] v.t = "string" -> "\"" \o v.s \o "\""
    [] v.t = "number" -> ToString(v.n)
    [] v.t = "array" ->
         IF v.a = <<>> THEN "[]"
         ELSE "[\n"
              \o JoinWith([i \in 1..Len(v.a) |->
                    ind \o "  " \o JSONPretty(v.a[i], ind \o "  ")], ",\n")
              \o "\n" \o ind \o "]"
    [] OTHER ->
         LET kv == Defined(v.kv)
         IN IF kv = <<>> THEN "{}"
            ELSE "{\n"
                 \o JoinWith([i \in 1..Len(kv) |->
                       ind \o "  \"" \o kv[i][1] \o "\": "
                       \o JSONPretty(kv[i][2], ind \o "  ")], ",\n")
                 \o "\n" \o ind \o "}"

\* JSON.stringify(v): undefined for undefined, else the compact text
Stringify(v) == IF v.t = "undefined" THEN Undef ELSE JStr(JSONText(v))

\* JSON.stringify(v, null, 2)
StringifyPretty(v) == IF v.t = "undefined" THEN Undef ELSE JStr(JSONPretty(v, ""))

----------------------------------------------------------------------------
(* The environment and the construction of the client *)

\* an environment variable: unset, set to the empty string, or set
Unset == Undef
EnvValues == {Unset, JStr(""), JStr("secret")}

\* the values of ERPNEXT_URL
UrlValues ==
  {Unset, JStr(""), JStr("http://erp"), JStr("http://erp/"), JStr("http://erp//")}

\* `process.env.ERPNEXT_URL || ''`
OrEmpty(value) == IF Truthy(value) THEN value.s ELSE ""

\* a constructor that takes any URL
UrlUnchecked(url) == TRUE

\* constructor: `if (!this.baseUrl) throw new Error(...)` guards the rest
UrlConfigured(url) == url # ""

\* a constructor that stores the URL as configured
KeepTrailingSlash(url) == url

\* `this.baseUrl.replace(/\/$/, '')`
StripTrailingSlash(url) ==
  IF Len(url) > 0 /\ SubSeq(url, Len(url), Len(url)) = "/"
  THEN SubSeq(url, 1, Len(url) - 1)
  ELSE url

\* a constructor that takes one credential for both
EitherCredential(key, secret) == Truthy(key) \/ Truthy(secret)

\* constructor: `if (apiKey && apiSecret) { ...; this.authenticated = true }`
CredentialsConfigured(key, secret) == Truthy(key) /\ Truthy(secret)

\* ERPNextClient.isAuthenticated()
isAuthenticated == authenticated

----------------------------------------------------------------------------
(* HTTP requests of the client and what the backend may answer *)

NoParams == {}

\* the URL of a request of the axios instance: its baseURL, then the path
\* the client operation names
RequestUrl(path) == baseUrl \o path

\* one axios request: query parameters are a set of <<name, value>> pairs
HttpGet(url, params) ==
  [method |-> "GET", url |-> url, params |-> params, body |-> Undef]
HttpPost(url, body) ==
  [method |-> "POST", url |-> url, params |-> NoParams, body |-> body]
HttpPut(url, body) ==
  [method |-> "PUT", url |-> url, params |-> NoParams, body |-> body]

\* a record of the backend, as ERPNext returns it
Doc == JObj(<< <<"name", JStr("CUST-0001")>>, <<"value", JStr("Lead")>> >>)

\* what a JSON body may hold under "data", "message" or "results"
Payloads ==
  {JNull, JNum(0), JNum(7), JArr(<<>>), JArr(<<Doc>>), JArr(<<JNull>>), Doc}

\* response.data of a 2xx answer: JSON null, a text that is no JSON, an object
\* without the field read, or an object with one of the fields
Bodies ==
  {JNull, JStr("<html>"), JObj(<<>>)}
    \cup {JObj(<< <<f, p>> >>) : f \in {"data", "message", "results"}, p \in Payloads}

\* the axios promise rejects (no answer, or a status outside 2xx) or resolves
Outcomes ==
  {[t |-> "reject", message |-> m] :
      m \in {"Network Error", "Request failed with status code 500", ""}}
    \cup {[t |-> "resolve", data |-> b] : b \in Bodies}

\* what a try block produced: a value, or an Error with its message
Return(v) == [threw |-> FALSE, value |-> v]
Throw(m) == [threw |-> TRUE, message |-> m]

\* `error?.message || 'Unknown error'`
MessageOf(m) == IF m = "" THEN "Unknown error" ELSE m

\* the body of a try block `const response = await axios...; return
\* response.data.<field>`: the rejection, or the TypeError of reading a field
\* of null, lands in the catch, which throws the prefixed Error
ReturnField(outcome, field, prefix) ==
  IF outcome.t = "reject"
  THEN Throw(prefix \o ": " \o MessageOf(outcome.message))
  ELSE IF Nullish(outcome.data)
  THEN Throw(prefix \o ": "
             \o MessageOf("Cannot read properties of null (reading '" \o field \o "')"))
  ELSE Return(Get(outcome.data, field))

----------------------------------------------------------------------------
(* ERPNextClient: for each operation, the request it issues and what it   *)
(* returns or throws once the backend has answered                         *)

getDocumentRequest(doctype, name) ==
  HttpGet("/api/resource/" \o doctype \o "/" \o name, NoParams)

getDocument(doctype, name, outcome) ==
  ReturnField(outcome, "data", "Failed to get " \o doctype \o " " \o name)

\* v.length
LengthOf(v) ==
  CASE v.t = "array" -> JNum(Len(v.a))
    [] v.t = "string" -> JNum(Len(v.s))
    [] OTHER -> Undef

\* `fields && fields.length`
FieldsGiven(fields) == Truthy(fields) /\ Truthy(LengthOf(fields))

\* a test of the limit against undefined alone
LimitDefined(limit) == limit # Undef

\* `if (limit)`
LimitGiven(limit) == Truthy(limit)

getDocListParams(filters, fields, limit) ==
  (IF FieldsGiven(fields) THEN {<<"fields", JSONText(fields)>>} ELSE {})
    \cup (IF Truthy(filters) THEN {<<"filters", JSONText(filters)>>} ELSE {})
    \cup (IF LimitGiven(limit) THEN {<<"limit_page_length", ToStr(limit)>>} ELSE {})

getDocListRequest(doctype, filters, fields, limit) ==
  HttpGet("/api/resource/" \o doctype, getDocListParams(filters, fields, limit))

getDocList(doctype, outcome) ==
  ReturnField(outcome, "data", "Failed to get " \o doctype \o " list")

createDocumentRequest(doctype, doc) ==
  HttpPost("/api/resource/" \o doctype, JObj(<< <<"data", doc>> >>))

createDocument(doctype, outcome) ==
  ReturnField(outcome, "data", "Failed to create " \o doctype)

updateDocumentRequest(doctype, name, doc) ==
  HttpPut("/api/resource/" \o doctype \o "/" \o name, JObj(<< <<"data", doc>> >>))

updateDocument(doctype, name, outcome) ==
  ReturnField(outcome, "data", "Failed to update " \o doctype \o " " \o name)

\* an undefined `filters` parameter is not sent
runReportRequest(reportName, filters) ==
  HttpGet("/api/method/frappe.desk.query_report.run",
          {<<"report_name", reportName>>}
            \cup (IF Truthy(filters) THEN {<<"filters", JSONText(filters)>>} ELSE {}))

runReport(reportName, outcome) ==
  ReturnField(outcome, "message", "Failed to run report " \o reportName)

\* the fallback list of getAllDocTypes
HardcodedDocTypes ==
  JArr(<<JStr("Customer"), JStr("Supplier"), JStr("Item"), JStr("Sales Order"),
         JStr("Purchase Order"), JStr("Sales Invoice"), JStr("Purchase Invoice"),
         JStr("Employee"), JStr("Lead"), JStr("Opportunity"), JStr("Quotation"),
         JStr("Payment Entry"), JStr("Journal Entry"), JStr("Stock Entry")>>)

\* list.map((item) => item.<key>): a TypeError when list has no map method or
\* an item is null
MapField(list, field, key) ==
  IF list.t # "array"
  THEN Throw("response.data." \o field \o ".map is not a function")
  ELSE IF \E i \in 1..Len(list.a) : Nullish(list.a[i])
  THEN Throw("Cannot read properties of null (reading '" \o key \o "')")
  ELSE Return(JArr([i \in 1..Len(list.a) |-> Get(list.a[i], key)]))

\* a tier that takes a body without its field for a failure
ListOrThrow(outcome, field, key) ==
  IF outcome.t = "reject" THEN Throw(outcome.message)
  ELSE IF Truthy(outcome.data) /\ Truthy(Get(outcome.data, field))
  THEN MapField(Get(outcome.data, field), field, key)
  ELSE Throw("No " \o field \o " in response")

\* the outer try block of getAllDocTypes, from the answer to its request on
ListOrEmpty(outcome, field, key) ==
  IF outcome.t = "reject" THEN Throw(outcome.message)
  ELSE IF Truthy(outcome.data) /\ Truthy(Get(outcome.data, field))
  THEN MapField(Get(outcome.data, field), field, key)
  ELSE Return(JArr(<<>>))

getAllDocTypesRequest ==
  HttpGet("/api/resource/DocType",
          {<<"fields", JSONText(JArr(<<JStr("name")>>))>>,
           <<"limit_page_length", ToStr(JNum(500))>>})

getAllDocTypesTier1(outcome) == ListOrEmpty(outcome, "data", "name")

\* a search that carries the first failure's message as its text
AltRequestWithError(error) ==
  HttpGet("/api/method/frappe.desk.search.search_link",
          {<<"doctype", "DocType">>, <<"txt", error.message>>,
           <<"limit", ToStr(JNum(500))>>})

\* the request of the catch block; the caught error is only logged
getAllDocTypesAltRequest(error) ==
  HttpGet("/api/method/frappe.desk.search.search_link",
          {<<"doctype", "DocType">>, <<"txt", "">>, <<"limit", ToStr(JNum(500))>>})

getAllDocTypesTier2(outcome) == ListOrEmpty(outcome, "results", "value")

\* an inner catch block that throws what it caught
FallbackRethrows(altError) == Throw(altError.message)

\* the inner catch block
getAllDocTypesFallback(altError) == Return(HardcodedDocTypes)

----------------------------------------------------------------------------
(* Protocol requests and replies *)

NoRequest == [method |-> "none"]
NoReply == [kind |-> "none"]
NoResult == [threw |-> FALSE, value |-> Undef]

\* a tool result; a result without the isError key is no error
ToolResult(text) == [kind |-> "result", text |-> text, isError |-> FALSE]
ToolError(text) == [kind |-> "result", text |-> JStr(text), isError |-> TRUE]

\* a read-resource result
Contents(uri, text) ==
  [kind |-> "contents", uri |-> uri, mimeType |-> "application/json", text |-> text]

\* `throw new McpError(code, message)`
McpError(code, message) ==
  [kind |-> "error", class |-> "McpError", code |-> code, message |-> message]

\* an exception of the runtime that leaves the handler
JsError(class, message) ==
  [kind |-> "error", class |-> class, code |-> "none", message |-> message]

NotAuthenticatedText ==
  "Not authenticated with ERPNext. Please configure API key authentication."

\* a handler either replies or awaits a client operation whose first HTTP
\* request is http
Reply(r) == [t |-> "reply", reply |-> r]
Await(op, args, http) ==
  [t |-> "await", op |-> [name |-> op, args |-> args], http |-> http]

----------------------------------------------------------------------------
(* Resource URIs: a scheme prefix followed by tokens.  "/" and "%" are the *)
(* characters the handler treats specially, "4" is a hexadecimal digit and *)
(* "DocTypes" is a run of plain characters that starts with the            *)
(* hexadecimal digit D.                                                    *)

UriTokens == {"DocTypes", "/", "%", "4"}

RECURSIVE SeqsUpTo(_, _)
SeqsUpTo(S, n) ==
  IF n = 0 THEN {<<>>}
  ELSE LET shorter == SeqsUpTo(S, n - 1)
       IN shorter \cup {Append(q, x) : q \in {r \in shorter : Len(r) = n - 1}, x \in S}

\* every URI of the erpnext scheme up to the bound, and URIs of another
\* scheme with the same paths as the two kinds of resource
Uris ==
  [scheme : {"erpnext://"}, path : SeqsUpTo(UriTokens, MaxUriLen)]
    \cup [scheme : {"http://"},
          path : {<<"DocTypes">>, <<"DocTypes", "/", "DocTypes">>}]

\* the URI as the string the request carries
UriText(u) == u.scheme \o JoinWith(u.path, "")

\* uri.match(/^erpnext:\/\/([^\/]+)\/(.+)$/): the position of the first "/",
\* with at least one character before it and one after it; 0 when no match
DocumentMatch(u) ==
  IF u.scheme = "erpnext://"
     /\ \E j \in 2..(Len(u.path) - 1) :
          u.path[j] = "/" /\ \A i \in 1..(j - 1) : u.path[i] # "/"
  THEN CHOOSE j \in 2..(Len(u.path) - 1) :
          u.path[j] = "/" /\ \A i \in 1..(j - 1) : u.path[i] # "/"
  ELSE 0

\* documentMatch[1] and documentMatch[2]
MatchGroup1(u) == SubSeq(u.path, 1, DocumentMatch(u) - 1)
MatchGroup2(u) == SubSeq(u.path, DocumentMatch(u) + 1, Len(u.path))

\* decodeURIComponent: "%" must be followed by two hexadecimal digits, here
\* "44" (the letter D) or "4" and the D of "DocTypes" (the letter M)
RECURSIVE decodeURIComponent(_)
decodeURIComponent(tokens) ==
  IF tokens = <<>> THEN Return("")
  ELSE IF tokens[1] # "%"
  THEN LET rest == decodeURIComponent(Tail(tokens))
       IN IF rest.threw THEN rest ELSE Return(tokens[1] \o rest.value)
  ELSE IF Len(tokens) >= 3 /\ tokens[2] = "4" /\ tokens[3] \in {"4", "DocTypes"}
  THEN LET rest == decodeURIComponent(SubSeq(tokens, 4, Len(tokens)))
       IN IF rest.threw THEN rest
          ELSE Return((IF tokens[3] = "4" THEN "D" ELSE "MocTypes") \o rest.value)
  ELSE Throw("URI malformed")

----------------------------------------------------------------------------
(* ReadResourceRequestSchema handler *)

\* the dispatch on the URI, to the first await
ReadResourceDispatch(uri) ==
  IF UriText(uri) = "erpnext://DocTypes"
  THEN Await("getAllDocTypes", <<>>, getAllDocTypesRequest)
  ELSE IF DocumentMatch(uri) # 0
  THEN LET doctype == decodeURIComponent(MatchGroup1(uri))
           name == decodeURIComponent(MatchGroup2(uri))
       IN IF doctype.threw THEN Reply(JsError("URIError", doctype.message))
          ELSE IF name.threw THEN Reply(JsError("URIError", name.message))
          ELSE Await("getDocument", <<JStr(doctype.value), JStr(name.value)>>,
                     getDocumentRequest(doctype.value, name.value))
  ELSE Reply(McpError("InvalidRequest",
                      "Invalid ERPNext resource URI: " \o UriText(uri)))

\* a handler without the check of isAuthenticated
ReadResourceUngated(uri) == ReadResourceDispatch(uri)

\* from the arrival of the request to the first await
ReadResourceBegin(uri) ==
  IF ~isAuthenticated
  THEN Reply(McpError("InvalidRequest", NotAuthenticatedText))
  ELSE ReadResourceDispatch(uri)

\* `if (!result) throw ...; return { contents: [...] }`
\* a handler that rejects only the undefined result
ReadResourceResultUnlessUndefined(uri, value) ==
  IF value = Undef
  THEN McpError("InvalidRequest", "Invalid ERPNext resource URI: " \o UriText(uri))
  ELSE Contents(UriText(uri), StringifyPretty(value))

ReadResourceResult(uri, value) ==
  IF ~Truthy(value)
  THEN McpError("InvalidRequest", "Invalid ERPNext resource URI: " \o UriText(uri))
  ELSE Contents(UriText(uri), StringifyPretty(value))

\* from the end of the awaited client operation, which produced res
\* a handler whose catch around getDocument leaves the result undefined
ReadResourceEndSwallowing(uri, op, res) ==
  IF op.name = "getAllDocTypes"
  THEN IF res.threw
       THEN McpError("InternalError",
                     "Failed to fetch DocTypes: " \o MessageOf(res.message))
       ELSE ReadResourceResult(uri, JObj(<< <<"doctypes", res.value>> >>))
  ELSE IF res.threw
       THEN ReadResourceResult(uri, Undef)
       ELSE ReadResourceResult(uri, res.value)

ReadResourceEnd(uri, op, res) ==
  IF op.name = "getAllDocTypes"
  THEN IF res.threw
       THEN McpError("InternalError",
                     "Failed to fetch DocTypes: " \o MessageOf(res.message))
       ELSE ReadResourceResult(uri, JObj(<< <<"doctypes", res.value>> >>))
  ELSE IF res.threw
       THEN McpError("InvalidRequest",
                     "Failed to fetch " \o ToStr(op.args[1]) \o " "
                     \o ToStr(op.args[2]) \o ": " \o MessageOf(res.message))
       ELSE ReadResourceResult(uri, res.value)

----------------------------------------------------------------------------
(* CallToolRequestSchema handler *)

KnownTools ==
  {"get_doctypes", "get_doctype_fields", "get_documents", "create_document",
   "update_document", "run_report"}
ToolNames == KnownTools \cup {"delete_document"}

\* request.params.arguments: a key that is absent reads as undefined
NoArguments ==
  [doctype |-> Undef, name |-> Undef, data |-> Undef, report_name |-> Undef,
   fields |-> Undef, filters |-> Undef, limit |-> Undef]

DoctypeArgs == {Undef, JStr(""), JStr("Customer")}
NameArgs == {Undef, JStr(""), JStr("CUST-0001")}
ReportNameArgs == {Undef, JStr(""), JStr("Sales Register")}
DataArgs == {Undef, JNull, JObj(<< <<"customer_name", JStr("Acme")>> >>)}
FieldsArgs == {Undef, JArr(<<>>), JArr(<<JStr("name")>>)}
FiltersArgs == {Undef, JObj(<<>>), JObj(<< <<"status", JStr("Open")>> >>)}
LimitArgs == {Undef, JNum(0), JNum(5)}

\* the arguments a client may send with each tool: the keys the tool reads
ArgumentsOf(tool) ==
  CASE tool = "get_doctype_fields" ->
         {[NoArguments EXCEPT !.doctype = d] : d \in DoctypeArgs}
    [] tool = "get_documents" ->
         {[NoArguments EXCEPT !.doctype = d, !.fields = f, !.filters = g, !.limit = l] :
            d \in DoctypeArgs, f \in FieldsArgs, g \in FiltersArgs, l \in LimitArgs}
    [] tool = "create_document" ->
         {[NoArguments EXCEPT !.doctype = d, !.data = x] :
            d \in DoctypeArgs, x \in DataArgs}
    [] tool = "update_document" ->
         {[NoArguments EXCEPT !.doctype = d, !.name = n, !.data = x] :
            d \in DoctypeArgs, n \in NameArgs, x \in DataArgs}
    [] tool = "run_report" ->
         {[NoArguments EXCEPT !.report_name = r, !.filters = g] :
            r \in ReportNameArgs, g \in FiltersArgs}
    [] OTHER -> {NoArguments, [NoArguments EXCEPT !.doctype = JStr("Customer")]}

\* the reply of every known tool when `!erpnext.isAuthenticated()`
NotAuthenticated == Reply(ToolError(NotAuthenticatedText))

\* `const doctype = String(request.params.arguments?.doctype)`
StringArg(value) == ToStr(value)

\* `if (!doctype)` on the string made of an argument
MissingString(text) == text = ""

\* `if (... || !data)`
MissingData(data) == ~Truthy(data)

InvalidParams(message) == Reply(McpError("InvalidParams", message))

GetDocumentsBegin(args) ==
  IF ~isAuthenticated THEN NotAuthenticated
  ELSE LET doctype == StringArg(args.doctype)
       IN IF MissingString(doctype) THEN InvalidParams("Doctype is required")
          ELSE Await("getDocList",
                     <<JStr(doctype), args.filters, args.fields, args.limit>>,
                     getDocListRequest(doctype, args.filters, args.fields, args.limit))

\* a handler that validates its arguments before it asks for authentication
CreateDocumentValidatesFirst(args) ==
  LET doctype == StringArg(args.doctype)
  IN IF MissingString(doctype) \/ MissingData(args.data)
     THEN InvalidParams("Doctype and data are required")
     ELSE IF ~isAuthenticated THEN NotAuthenticated
     ELSE Await("createDocument", <<JStr(doctype), args.data>>,
                createDocumentRequest(doctype, args.data))

CreateDocumentBegin(args) ==
  IF ~isAuthenticated THEN NotAuthenticated
  ELSE LET doctype == StringArg(args.doctype)
       IN IF MissingString(doctype) \/ MissingData(args.data)
          THEN InvalidParams("Doctype and data are required")
          ELSE Await("createDocument", <<JStr(doctype), args.data>>,
                     createDocumentRequest(doctype, args.data))

UpdateDocumentBegin(args) ==
  IF ~isAuthenticated THEN NotAuthenticated
  ELSE LET doctype == StringArg(args.doctype)
           name == StringArg(args.name)
       IN IF MissingString(doctype) \/ MissingString(name) \/ MissingData(args.data)
          THEN InvalidParams("Doctype, name, and data are required")
          ELSE Await("updateDocument", <<JStr(doctype), JStr(name), args.data>>,
                     updateDocumentRequest(doctype, name, args.data))

\* a run_report that validates its arguments before the check of
\* isAuthenticated
RunReportValidatesFirst(args) ==
  LET reportName == StringArg(args.report_name)
  IN IF MissingString(reportName) THEN InvalidParams("Report name is required")
     ELSE IF ~isAuthenticated THEN NotAuthenticated
     ELSE Await("runReport", <<JStr(reportName), args.filters>>,
                runReportRequest(reportName, args.filters))

RunReportBegin(args) ==
  IF ~isAuthenticated THEN NotAuthenticated
  ELSE LET reportName == StringArg(args.report_name)
       IN IF MissingString(reportName) THEN InvalidParams("Report name is required")
          ELSE Await("runReport", <<JStr(reportName), args.filters>>,
                     runReportRequest(reportName, args.filters))

\* the sample document is requested with filters {}, fields ["*"], limit 1
GetDoctypeFieldsBegin(args) ==
  IF ~isAuthenticated THEN NotAuthenticated
  ELSE LET doctype == StringArg(args.doctype)
           filters == JObj(<<>>)
           fields == JArr(<<JStr("*")>>)
           limit == JNum(1)
       IN IF MissingString(doctype) THEN InvalidParams("Doctype is required")
          ELSE Await("getDocList", <<JStr(doctype), filters, fields, limit>>,
                     getDocListRequest(doctype, filters, fields, limit))

\* a get_doctypes without the check of isAuthenticated
GetDoctypesUngated(args) == Await("getAllDocTypes", <<>>, getAllDocTypesRequest)

GetDoctypesBegin(args) ==
  IF ~isAuthenticated THEN NotAuthenticated
  ELSE Await("getAllDocTypes", <<>>, getAllDocTypesRequest)

\* a default branch that returns a tool result
UnknownToolResult(name) == Reply(ToolError("Unknown tool: " \o name))

\* the default branch of the switch
UnknownTool(name) == Reply(McpError("MethodNotFound", "Unknown tool: " \o name))

\* `switch (request.params.name)`: from the arrival of the request to the
\* first await
CallToolBegin(name, args) ==
  CASE name = "get_documents" -> GetDocumentsBegin(args)
    [] name = "create_document" -> CreateDocumentBegin(args)
    [] name = "update_document" -> UpdateDocumentBegin(args)
    [] name = "run_report" -> RunReportBegin(args)
    [] name = "get_doctype_fields" -> GetDoctypeFieldsBegin(args)
    [] name = "get_doctypes" -> GetDoctypesBegin(args)
    [] OTHER -> UnknownTool(name)

\* a catch block that throws to the protocol
ToolFailureThrown(what, message) ==
  McpError("InternalError", what \o ": " \o MessageOf(message))

\* the catch block of a tool: the failure becomes a tool result
ToolFailure(what, message) == ToolError(what \o ": " \o MessageOf(message))

GetDocumentsEnd(op, res) ==
  IF res.threw
  THEN ToolFailure("Failed to get " \o ToStr(op.args[1]) \o " documents", res.message)
  ELSE ToolResult(StringifyPretty(res.value))

\* `result.name` throws inside the try block when result is null or undefined
\* a handler that prints the created document on one line
CreateDocumentEndCompact(op, res) ==
  LET what == "Failed to create " \o ToStr(op.args[1])
  IN IF res.threw THEN ToolFailure(what, res.message)
     ELSE IF Nullish(res.value)
     THEN ToolFailure(what, "Cannot read properties of " \o ToStr(res.value)
                            \o " (reading 'name')")
     ELSE ToolResult(JStr("Created " \o ToStr(op.args[1]) \o ": "
                          \o ToStr(Get(res.value, "name")) \o "\n\n"
                          \o ToStr(Stringify(res.value))))

CreateDocumentEnd(op, res) ==
  LET what == "Failed to create " \o ToStr(op.args[1])
  IN IF res.threw THEN ToolFailure(what, res.message)
     ELSE IF Nullish(res.value)
     THEN ToolFailure(what, "Cannot read properties of " \o ToStr(res.value)
                            \o " (reading 'name')")
     ELSE ToolResult(JStr("Created " \o ToStr(op.args[1]) \o ": "
                          \o ToStr(Get(res.value, "name")) \o "\n\n"
                          \o ToStr(StringifyPretty(res.value))))

UpdateDocumentEnd(op, res) ==
  IF res.threw
  THEN ToolFailure("Failed to update " \o ToStr(op.args[1]) \o " " \o ToStr(op.args[2]),
                   res.message)
  ELSE ToolResult(JStr("Updated " \o ToStr(op.args[1]) \o " " \o ToStr(op.args[2])
                       \o "\n\n" \o ToStr(StringifyPretty(res.value))))

RunReportEnd(op, res) ==
  IF res.threw
  THEN ToolFailure("Failed to run report " \o ToStr(op.args[1]), res.message)
  ELSE ToolResult(StringifyPretty(res.value))

\* longest sample of a field value
SampleLen == 50

\* `typeof v`
TypeOf(v) ==
  CASE v.t \in {"undefined", "string", "number"} -> v.t
    [] OTHER -> "object"

\* `v?.toString()?.substring(0, 50) || null`
Sample(v) ==
  IF Nullish(v) THEN JNull
  ELSE LET text == ToStr(v)
           cut == SubSeq(text, 1, IF Len(text) < SampleLen THEN Len(text) ELSE SampleLen)
       IN IF cut = "" THEN JNull ELSE JStr(cut)

\* `!documents || documents.length === 0`
\* a test that leaves out the length of the list
NoDocumentsUnlessEmpty(documents) == ~Truthy(documents)

NoDocuments(documents) == ~Truthy(documents) \/ LengthOf(documents) = JNum(0)

\* documents[0]
FirstOf(documents) ==
  IF documents.t = "array" /\ documents.a # <<>> THEN documents.a[1]
  ELSE Get(documents, "0")

\* Object.keys(sampleDoc).map(field => ({fieldname, value, sample}))
FieldDescriptors(sampleDoc) ==
  LET kv == IF sampleDoc.t = "object" THEN sampleDoc.kv ELSE <<>>
  IN JArr([i \in 1..Len(kv) |->
             JObj(<< <<"fieldname", JStr(kv[i][1])>>,
                     <<"value", JStr(TypeOf(kv[i][2]))>>,
                     <<"sample", Sample(kv[i][2])>> >>)])

GetDoctypeFieldsEnd(op, res) ==
  LET what == "Failed to get fields for " \o ToStr(op.args[1])
  IN IF res.threw THEN ToolFailure(what, res.message)
     ELSE IF NoDocuments(res.value)
     THEN ToolError("No documents found for " \o ToStr(op.args[1])
                    \o ". Cannot determine fields.")
     ELSE IF Nullish(FirstOf(res.value))
     THEN ToolFailure(what, "Cannot convert undefined or null to object")
     ELSE ToolResult(StringifyPretty(FieldDescriptors(FirstOf(res.value))))

GetDoctypesEnd(op, res) ==
  IF res.threw THEN ToolFailure("Failed to get DocTypes", res.message)
  ELSE ToolResult(StringifyPretty(res.value))

\* from the end of the awaited client operation, which produced res
CallToolEnd(name, op, res) ==
  CASE name = "get_documents" -> GetDocumentsEnd(op, res)
    [] name = "create_document" -> CreateDocumentEnd(op, res)
    [] name = "update_document" -> UpdateDocumentEnd(op, res)
    [] name = "run_report" -> RunReportEnd(op, res)
    [] name = "get_doctype_fields" -> GetDoctypeFieldsEnd(op, res)
    [] OTHER -> GetDoctypesEnd(op, res)

----------------------------------------------------------------------------
(* The listing handlers: static replies, no use of the client *)

ListResourcesReply ==
  [kind |-> "resources", uris |-> <<"erpnext://DocTypes">>]

ListResourceTemplatesReply ==
  [kind |-> "resourceTemplates", uriTemplates |-> <<"erpnext://{doctype}/{name}">>]

ListToolsReply ==
  [kind |-> "tools",
   names |-> <<"get_doctypes", "get_doctype_fields", "get_documents",
               "create_document", "update_document", "run_report">>]

----------------------------------------------------------------------------
(* The state machine *)

\* module initialisation: `const erpnext = new ERPNextClient()` with the
\* credentials of the environment; no request has arrived
\* the slots of the requests in flight
Slots == 1..MaxInFlight

\* the frame of a handler: where it is suspended, its request, the client
\* operation it invoked, its HTTP requests and their answers, and its reply
IdleFrame ==
  [pc |-> "idle", request |-> NoRequest, invoked |-> <<>>, calls |-> <<>>,
   heard |-> <<>>, result |-> NoResult, reply |-> NoReply]

\* the request methods of the five setRequestHandler calls
Methods ==
  {"resources/list", "resources/templates/list", "resources/read",
   "tools/list", "tools/call"}

\* the state once `new ERPNextClient()` has returned or thrown: a throw ends
\* the evaluation of the module, and the process with it
Init ==
  /\ erpnextUrl \in UrlValues
  /\ apiKey \in EnvValues
  /\ apiSecret \in EnvValues
  /\ exited = ~UrlConfigured(OrEmpty(erpnextUrl))
  /\ baseUrl = IF exited THEN "" ELSE StripTrailingSlash(OrEmpty(erpnextUrl))
  /\ authenticated = (~exited /\ CredentialsConfigured(apiKey, apiSecret))
  /\ handlers = {}
  /\ connected = FALSE
  /\ doctypeCache = {}
  /\ frames = [slot \in Slots |-> IdleFrame]
  /\ pc = "idle"
  /\ request = NoRequest
  /\ invoked = <<>>
  /\ calls = <<>>
  /\ result = NoResult
  /\ reply = NoReply
  /\ httpCount = 0

\* no handler writes the client
ClientUnchanged ==
  UNCHANGED <<erpnextUrl, baseUrl, apiKey, apiSecret, authenticated>>

\* a handler that keeps what it fetched in the cache
CacheFilled == doctypeCache' = doctypeCache \cup {"DocType"}

\* doctypeCache is declared and never read or written
CacheUnchanged == UNCHANGED doctypeCache

\* no handler registers a handler, connects or ends the process
ServerUnchanged == UNCHANGED <<exited, handlers, connected>> /\ CacheUnchanged

\* the handler in flight is where it was
FrameUnchanged == UNCHANGED <<pc, request, invoked, calls, result, reply>>

\* nothing is handled
HandlerUnchanged == FrameUnchanged /\ UNCHANGED <<httpCount, frames>>

\* a handler has no access to the frame of another
OthersUnchanged == UNCHANGED frames

\* the five `server.setRequestHandler(...)` calls
RegisterHandlers ==
  /\ ~exited
  /\ handlers = {}
  /\ handlers' = Methods
  /\ UNCHANGED <<exited, connected>>
  /\ CacheUnchanged
  /\ ClientUnchanged
  /\ HandlerUnchanged

\* main: `await server.connect(transport)`
Connect ==
  /\ ~exited
  /\ handlers = Methods
  /\ ~connected
  /\ connected' = TRUE
  /\ UNCHANGED <<exited, handlers>>
  /\ CacheUnchanged
  /\ ClientUnchanged
  /\ HandlerUnchanged

\* main().catch: the connection failed, `process.exit(1)`
ConnectFails ==
  /\ ~exited
  /\ handlers = Methods
  /\ ~connected
  /\ exited' = TRUE
  /\ UNCHANGED <<handlers, connected>>
  /\ CacheUnchanged
  /\ ClientUnchanged
  /\ HandlerUnchanged

\* the transport delivers the next request once the previous one is answered
CanAccept == connected /\ ~exited /\ pc = "idle" /\ httpCount < MaxHttp

\* a handler runs to its reply, or to the await of its client operation
Run(req, step) ==
  /\ request' = req
  /\ result' = NoResult
  /\ IF step.t = "reply"
     THEN /\ pc' = "replied"
          /\ reply' = step.reply
          /\ invoked' = <<>>
          /\ calls' = <<>>
          /\ httpCount' = httpCount
     ELSE /\ pc' = "await"
          /\ reply' = NoReply
          /\ invoked' = <<step.op>>
          /\ calls' = <<[req |-> step.http, fate |-> "pending"]>>
          /\ httpCount' = httpCount + 1
  /\ ClientUnchanged
  /\ ServerUnchanged
  /\ OthersUnchanged

ListResources ==
  /\ CanAccept
  /\ Run([method |-> "resources/list"], Reply(ListResourcesReply))

ListResourceTemplates ==
  /\ CanAccept
  /\ Run([method |-> "resources/templates/list"], Reply(ListResourceTemplatesReply))

ListTools ==
  /\ CanAccept
  /\ Run([method |-> "tools/list"], Reply(ListToolsReply))

ReadResource ==
  /\ CanAccept
  /\ \E uri \in Uris :
       Run([method |-> "resources/read", uri |-> uri], ReadResourceBegin(uri))

CallTool ==
  /\ CanAccept
  /\ \E name \in ToolNames :
       \E args \in ArgumentsOf(name) :
         Run([method |-> "tools/call", name |-> name, arguments |-> args],
             CallToolBegin(name, args))

\* the handler resumes with what its client operation produced, and replies
Resume(res) ==
  /\ pc' = "replied"
  /\ result' = res
  /\ reply' = IF request.method = "resources/read"
              THEN ReadResourceEnd(request.uri, invoked[1], res)
              ELSE CallToolEnd(request.name, invoked[1], res)
  /\ UNCHANGED <<request, invoked>>
  /\ ClientUnchanged
  /\ ServerUnchanged
  /\ OthersUnchanged

\* the fate of the try block around the last HTTP request
Settle(res) ==
  [calls EXCEPT ![Len(calls)].fate = IF res.threw THEN "threw" ELSE "returned"]

\* what the awaited operation produces from the answer to its one request
ClientReturn(op, outcome) ==
  CASE op.name = "getDocument" ->
         getDocument(ToStr(op.args[1]), ToStr(op.args[2]), outcome)
    [] op.name = "getDocList" -> getDocList(ToStr(op.args[1]), outcome)
    [] op.name = "createDocument" -> createDocument(ToStr(op.args[1]), outcome)
    [] op.name = "updateDocument" ->
         updateDocument(ToStr(op.args[1]), ToStr(op.args[2]), outcome)
    [] OTHER -> runReport(ToStr(op.args[1]), outcome)

\* a client that issues its request once more after a first failure
ClientRespondsRetrying ==
  /\ pc = "await"
  /\ invoked[1].name # "getAllDocTypes"
  /\ \E outcome \in Outcomes :
       LET res == ClientReturn(invoked[1], outcome)
       IN IF res.threw /\ Len(calls) = 1
          THEN /\ calls' = Append(Settle(res),
                                  [req |-> calls[1].req, fate |-> "pending"])
               /\ httpCount' = httpCount + 1
               /\ UNCHANGED <<pc, request, invoked, result, reply>>
               /\ ClientUnchanged
               /\ ServerUnchanged
               /\ OthersUnchanged
          ELSE /\ calls' = Settle(res)
               /\ httpCount' = httpCount
               /\ Resume(res)

\* the backend answers the request of getDocument, getDocList,
\* createDocument, updateDocument or runReport
ClientResponds ==
  /\ pc = "await"
  /\ invoked[1].name # "getAllDocTypes"
  /\ \E outcome \in Outcomes :
       LET res == ClientReturn(invoked[1], outcome)
       IN /\ calls' = Settle(res)
          /\ httpCount' = httpCount
          /\ Resume(res)

\* the backend answers GET /api/resource/DocType
Tier1Responds ==
  /\ pc = "await"
  /\ invoked[1].name = "getAllDocTypes"
  /\ Len(calls) = 1
  /\ \E outcome \in Outcomes :
       LET res == getAllDocTypesTier1(outcome)
       IN IF res.threw
          THEN /\ calls' = Append(Settle(res),
                                  [req |-> getAllDocTypesAltRequest(res),
                                   fate |-> "pending"])
               /\ httpCount' = httpCount + 1
               /\ UNCHANGED <<pc, request, invoked, result, reply>>
               /\ ClientUnchanged
               /\ ServerUnchanged
               /\ OthersUnchanged
          ELSE /\ calls' = Settle(res)
               /\ httpCount' = httpCount
               /\ Resume(res)

\* the backend answers the search_link request
Tier2Responds ==
  /\ pc = "await"
  /\ invoked[1].name = "getAllDocTypes"
  /\ Len(calls) = 2
  /\ \E outcome \in Outcomes :
       LET res == getAllDocTypesTier2(outcome)
       IN /\ calls' = Settle(res)
          /\ httpCount' = httpCount
          /\ Resume(IF res.threw THEN getAllDocTypesFallback(res) ELSE res)

\* the reply is sent and the handler's frame is gone
Send ==
  /\ pc = "replied"
  /\ pc' = "idle"
  /\ request' = NoRequest
  /\ invoked' = <<>>
  /\ calls' = <<>>
  /\ result' = NoResult
  /\ reply' = NoReply
  /\ httpCount' = httpCount
  /\ ClientUnchanged
  /\ ServerUnchanged
  /\ OthersUnchanged

Next ==
  \/ RegisterHandlers
  \/ Connect
  \/ ConnectFails
  \/ Send
  \/ ListResources
  \/ ListResourceTemplates
  \/ ListTools
  \/ ReadResource
  \/ CallTool
  \/ ClientResponds
  \/ Tier1Responds
  \/ Tier2Responds

Spec == Init /\ [][Next]_vars

----------------------------------------------------------------------------
(* Requests in flight together: each handler is an async function that    *)
(* runs alone from its arrival to its await and from the answer to its    *)
(* reply, so handlers interleave at their awaits only                     *)

\* the requests and the answers of the backend taken for overlapping handlers
ConcRequests ==
  {[method |-> "tools/list"],
   [method |-> "resources/read",
    uri |-> [scheme |-> "erpnext://", path |-> <<"DocTypes", "/", "4">>]],
   [method |-> "tools/call", name |-> "get_doctypes", arguments |-> NoArguments]}

ConcOutcomes ==
  {[t |-> "reject", message |-> "Network Error"]}
    \cup {[t |-> "resolve", data |-> b] :
            b \in {JObj(<<>>), JObj(<< <<"data", JArr(<<Doc>>)>> >>)}}

\* the handler of the request, up to its reply or its first await
BeginOf(req) ==
  CASE req.method = "resources/list" -> Reply(ListResourcesReply)
    [] req.method = "resources/templates/list" -> Reply(ListResourceTemplatesReply)
    [] req.method = "tools/list" -> Reply(ListToolsReply)
    [] req.method = "resources/read" -> ReadResourceBegin(req.uri)
    [] OTHER -> CallToolBegin(req.name, req.arguments)

\* the handler of the request, from what its client operation produced
EndOf(req, op, res) ==
  IF req.method = "resources/read"
  THEN ReadResourceEnd(req.uri, op, res)
  ELSE CallToolEnd(req.name, op, res)

\* the frame of a handler that has run to its reply or its await
Begun(req, step) ==
  IF step.t = "reply"
  THEN [IdleFrame EXCEPT !.pc = "replied", !.request = req, !.reply = step.reply]
  ELSE [IdleFrame EXCEPT !.pc = "await", !.request = req,
                         !.invoked = <<step.op>>,
                         !.calls = <<[req |-> step.http, fate |-> "pending"]>>]

\* the frame of an awaiting handler once the backend has answered its
\* pending request: the client operation returns or throws and the handler
\* replies, or getAllDocTypes issues its second request
Answered(f, outcome) ==
  LET op == f.invoked[1]
      Settled(res) ==
        [f.calls EXCEPT ![Len(f.calls)].fate =
                           IF res.threw THEN "threw" ELSE "returned"]
      Done(tried, res) ==
        [f EXCEPT !.pc = "replied",
                  !.calls = Settled(tried),
                  !.heard = Append(@, outcome),
                  !.result = res,
                  !.reply = EndOf(f.request, op, res)]
  IN IF op.name # "getAllDocTypes"
     THEN Done(ClientReturn(op, outcome), ClientReturn(op, outcome))
     ELSE IF Len(f.calls) = 1
     THEN LET res == getAllDocTypesTier1(outcome)
          IN IF res.threw
             THEN [f EXCEPT !.calls = Append(Settled(res),
                                             [req |-> getAllDocTypesAltRequest(res),
                                              fate |-> "pending"]),
                            !.heard = Append(@, outcome)]
             ELSE Done(res, res)
     ELSE LET res == getAllDocTypesTier2(outcome)
          IN Done(res, IF res.threw THEN getAllDocTypesFallback(res) ELSE res)

\* a request arrives while others may be suspended
Arrive(slot) ==
  /\ connected
  /\ frames[slot].pc = "idle"
  /\ httpCount < MaxHttp
  /\ \E req \in ConcRequests :
       /\ req.method \in handlers
       /\ LET f == Begun(req, BeginOf(req))
          IN /\ frames' = [frames EXCEPT ![slot] = f]
             /\ httpCount' = httpCount + Len(f.calls)
  /\ ClientUnchanged
  /\ ServerUnchanged
  /\ FrameUnchanged

\* the backend answers the pending request of a suspended handler
Answer(slot) ==
  /\ frames[slot].pc = "await"
  /\ \E outcome \in ConcOutcomes :
       LET f == Answered(frames[slot], outcome)
       IN /\ frames' = [frames EXCEPT ![slot] = f]
          /\ httpCount' = httpCount + Len(f.calls) - Len(frames[slot].calls)
  /\ ClientUnchanged
  /\ ServerUnchanged
  /\ FrameUnchanged

\* a handler that gives up on its backend call
DeliverOrAbandon(slot) ==
  /\ frames[slot].pc \in {"replied", "await"}
  /\ frames' = [frames EXCEPT ![slot] =
                  IF frames[slot].pc = "replied" THEN IdleFrame
                  ELSE [@ EXCEPT !.pc = "replied",
                                 !.reply = McpError("RequestTimeout",
                                                    "Request timed out")]]
  /\ httpCount' = httpCount
  /\ ClientUnchanged
  /\ ServerUnchanged
  /\ FrameUnchanged

\* the reply of a handler is sent and its frame is gone
Deliver(slot) ==
  /\ frames[slot].pc = "replied"
  /\ frames' = [frames EXCEPT ![slot] = IdleFrame]
  /\ httpCount' = httpCount
  /\ ClientUnchanged
  /\ ServerUnchanged
  /\ FrameUnchanged

\* one configured client, with or without credentials
ConcInit ==
  /\ Init
  /\ erpnextUrl = JStr("http://erp/")
  /\ apiKey = JStr("secret")
  /\ apiSecret \in {Unset, JStr("secret")}

ConcNext ==
  \/ RegisterHandlers
  \/ Connect
  \/ ConnectFails
  \/ \E slot \in Slots : Arrive(slot)
  \/ \E slot \in Slots : Answer(slot)
  \/ \E slot \in Slots : Deliver(slot)

ConcSpec == ConcInit /\ [][ConcNext]_vars

\* every HTTP request issued is answered in the end
FairSpec == ConcSpec /\ \A slot \in Slots : WF_vars(Answer(slot))

----------------------------------------------------------------------------
(* Properties *)

Replied == pc = "replied"
IsToolCall == request.method = "tools/call"
IsKnownToolCall == IsToolCall /\ request.name \in KnownTools
IsRead == request.method = "resources/read"

\* the reply is a tool result flagged isError
IsToolError(r) == r.kind = "result" /\ r.isError

\* the reply is a thrown McpError
IsMcpError(r) == r.kind = "error" /\ r.class = "McpError"

\* C1: without both credentials, a call of any of the six known tools, with
\* any arguments, is answered by a tool result with isError: true, no client
\* operation is invoked, no handler ever awaits the backend, and the number
\* of HTTP requests issued stays zero over any sequence of requests.
C1_UnauthenticatedToolsNeverReachBackend ==
  ~isAuthenticated =>
    /\ httpCount = 0
    /\ pc # "await"
    /\ (Replied /\ IsKnownToolCall =>
          IsToolError(reply) /\ invoked = <<>> /\ calls = <<>>)

C1_Witness ==
  /\ ~isAuthenticated
  /\ Replied
  /\ IsToolCall
  /\ request.name = "create_document"
  /\ Truthy(request.arguments.data)
  /\ IsToolError(reply)

\* C2: without both credentials, every read-resource request, whatever its
\* URI, is answered by a thrown McpError, never by contents, and neither
\* getAllDocTypes nor getDocument is invoked.
C2_UnauthenticatedReadThrows ==
  ~isAuthenticated /\ IsRead =>
    /\ Replied
    /\ IsMcpError(reply)
    /\ invoked = <<>>
    /\ calls = <<>>

C2_Witness ==
  /\ ~isAuthenticated
  /\ Replied
  /\ IsRead
  /\ DocumentMatch(request.uri) # 0
  /\ IsMcpError(reply)

\* the required arguments of each tool that has some
RequiredArguments(tool) ==
  CASE tool = "create_document" -> {"doctype", "data"}
    [] tool = "update_document" -> {"doctype", "name", "data"}
    [] tool = "run_report" -> {"report_name"}
    [] tool \in {"get_doctype_fields", "get_documents"} -> {"doctype"}
    [] OTHER -> {}

\* some required argument of the tool called is absent from the arguments
RequiredArgumentAbsent ==
  \E a \in RequiredArguments(request.name) : request.arguments[a] = Undef

\* C3: an authenticated call of get_doctype_fields, get_documents,
\* create_document, update_document or run_report that lacks a required
\* argument raises the protocol-level InvalidParams error and issues no
\* backend call.
C3_MissingArgumentIsInvalidParams ==
  isAuthenticated /\ IsKnownToolCall /\ RequiredArgumentAbsent =>
    /\ Replied
    /\ IsMcpError(reply)
    /\ reply.code = "InvalidParams"
    /\ calls = <<>>

\* the handler in flight has invoked getAllDocTypes
InGetAllDocTypes == invoked # <<>> /\ invoked[1].name = "getAllDocTypes"

\* the two requests of getAllDocTypes, as the interface documents them
Tier1Request ==
  [method |-> "GET", url |-> "/api/resource/DocType", body |-> Undef,
   params |-> {<<"fields", "[\"name\"]">>, <<"limit_page_length", "500">>}]
Tier2Request ==
  [method |-> "GET", url |-> "/api/method/frappe.desk.search.search_link",
   body |-> Undef,
   params |-> {<<"doctype", "DocType">>, <<"txt", "">>, <<"limit", "500">>}]

\* the fixed list of 14 common type names
FourteenNames ==
  <<"Customer", "Supplier", "Item", "Sales Order", "Purchase Order",
    "Sales Invoice", "Purchase Invoice", "Employee", "Lead", "Opportunity",
    "Quotation", "Payment Entry", "Journal Entry", "Stock Entry">>

\* the call has returned the fixed list
ReturnedFixedList ==
  /\ Replied
  /\ ~result.threw
  /\ result.value = JArr([i \in 1..Len(FourteenNames) |-> JStr(FourteenNames[i])])

\* C4: in getAllDocTypes the tiers are tried in strict order: the first
\* request is GET /api/resource/DocType; the search-link request is issued
\* only after the first tier has failed, and is always the same request
\* (doctype=DocType, txt="", limit=500) however the first tier failed; a
\* tier that succeeds ends the call with no further request; the fixed list
\* is returned only after both tiers have failed.
C4_TiersInStrictOrder ==
  InGetAllDocTypes =>
    /\ Len(calls) \in {1, 2}
    /\ calls[1].req = Tier1Request
    /\ Len(calls) = 2 => calls[1].fate = "threw" /\ calls[2].req = Tier2Request
    /\ calls[1].fate = "returned" => Replied /\ Len(calls) = 1
    /\ calls[Len(calls)].fate = "returned" => Replied /\ ~ReturnedFixedList
    /\ ReturnedFixedList =>
         Len(calls) = 2 /\ calls[1].fate = "threw" /\ calls[2].fate = "threw"

C4_Witness ==
  /\ InGetAllDocTypes
  /\ ReturnedFixedList
  /\ Len(calls) = 2
  /\ calls[2].req = Tier2Request
  /\ calls[2].fate = "threw"

\* C5: getAllDocTypes never raises: whatever the two requests produce
\* (rejection, a body of any shape, success) the call returns an array, its
\* caller replies without error, and when both tiers have failed the array
\* is exactly the fixed list of 14 names.
C5_GetAllDocTypesNeverRaises ==
  InGetAllDocTypes /\ Replied =>
    /\ ~result.threw
    /\ result.value.t = "array"
    /\ reply.kind \in {"result", "contents"}
    /\ reply.kind = "result" => ~reply.isError
    /\ (Len(calls) = 2 /\ calls[2].fate = "threw") => ReturnedFixedList

C5_Witness ==
  /\ InGetAllDocTypes
  /\ Replied
  /\ Len(calls) = 2
  /\ calls[1].fate = "threw"
  /\ calls[2].fate = "threw"
  /\ Len(result.value.a) = 14
  /\ reply.kind = "contents"

\* "<action> <subject>" of the failure message of each tool
ActionAndSubject(tool, args) ==
  CASE tool = "get_documents" -> "get " \o ToStr(args.doctype) \o " documents"
    [] tool = "create_document" -> "create " \o ToStr(args.doctype)
    [] tool = "update_document" ->
         "update " \o ToStr(args.doctype) \o " " \o ToStr(args.name)
    [] tool = "run_report" -> "run report " \o ToStr(args.report_name)
    [] tool = "get_doctype_fields" -> "get fields for " \o ToStr(args.doctype)
    [] OTHER -> "get DocTypes"

\* C6: when the client operation awaited by a tool handler fails (the
\* request is rejected, or the body cannot be read), the handler returns a
\* tool result with isError: true whose text is "Failed to <action>
\* <subject>: <underlying message>"; the failure never leaves the handler as
\* a protocol-level error.
C6_BackendFailureIsToolError ==
  Replied /\ IsToolCall /\ result.threw =>
    /\ IsToolError(reply)
    /\ reply.text = JStr("Failed to "
                         \o ActionAndSubject(request.name, request.arguments)
                         \o ": " \o result.message)

C6_Witness ==
  /\ Replied
  /\ IsToolCall
  /\ request.name = "update_document"
  /\ request.arguments.doctype = JStr("Customer")
  /\ request.arguments.name = JStr("CUST-0001")
  /\ result.threw
  /\ IsToolError(reply)

\* the URI has the form erpnext://{doctype}/{name}: a first "/" after a
\* non-empty first segment, and a non-empty remainder
FirstSlash(u) ==
  {j \in 1..Len(u.path) : u.path[j] = "/" /\ \A i \in 1..(j - 1) : u.path[i] # "/"}
HasDocumentForm(u) ==
  /\ u.scheme = "erpnext://"
  /\ \E j \in FirstSlash(u) : 1 < j /\ j < Len(u.path)

\* the one invocation getDocument(doctype, name) with the percent-decoded
\* segments of the URI
InvokedGetDocumentOf(u) ==
  \E j \in FirstSlash(u) :
    LET doctype == decodeURIComponent(SubSeq(u.path, 1, j - 1))
        name == decodeURIComponent(SubSeq(u.path, j + 1, Len(u.path)))
    IN /\ ~doctype.threw
       /\ ~name.threw
       /\ invoked = <<[name |-> "getDocument",
                       args |-> <<JStr(doctype.value), JStr(name.value)>>]>>

\* C7: for an authenticated client, read-resource dispatch is keyed by the
\* URI: exactly erpnext://DocTypes invokes getAllDocTypes() and replies with
\* {doctypes: [...]}; a URI of the form erpnext://{doctype}/{name} invokes
\* getDocument with the percent-decoded first segment and the percent-decoded
\* remainder; every other URI yields the protocol-level "Invalid ERPNext
\* resource URI" error with no backend call.
C7_ReadDispatchByUri ==
  isAuthenticated /\ IsRead =>
    CASE UriText(request.uri) = "erpnext://DocTypes" ->
           /\ invoked = <<[name |-> "getAllDocTypes", args |-> <<>>]>>
           /\ Replied =>
                reply = Contents("erpnext://DocTypes",
                          StringifyPretty(JObj(<< <<"doctypes", result.value>> >>)))
      [] HasDocumentForm(request.uri) -> InvokedGetDocumentOf(request.uri)
      [] OTHER ->
           /\ Replied
           /\ reply = McpError("InvalidRequest",
                        "Invalid ERPNext resource URI: " \o UriText(request.uri))
           /\ calls = <<>>

\* an environment variable is present: set, to a value that is not empty
Present(v) == v # Unset /\ v # JStr("")

\* C8: isAuthenticated() is true if and only if both ERPNEXT_API_KEY and
\* ERPNEXT_API_SECRET were present at construction, and no step of any
\* handler, whether its backend call succeeds or fails, changes it.
C8_AuthenticatedFixedAtConstruction ==
  /\ [](~exited => (isAuthenticated <=> (Present(apiKey) /\ Present(apiSecret))))
  /\ [][authenticated' = authenticated]_vars

C8_Witness ==
  /\ isAuthenticated
  /\ Present(apiKey)
  /\ Present(apiSecret)
  /\ Replied
  /\ result.threw

\* the reply says that the client is not authenticated, as a thrown McpError
\* or as a tool result with isError: true
IsAuthenticationError(r) ==
  \/ IsMcpError(r) /\ r.message = NotAuthenticatedText
  \/ IsToolError(r) /\ r.text = JStr(NotAuthenticatedText)

\* C9 as stated: every operation other than list-tools and list-resources
\* (list-resource-templates, read-resource, call-tool for any tool name)
\* checks isAuthenticated() first and replies with an authentication error
\* when it is false.
C9_EveryOtherOperationIsGated ==
  (/\ ~isAuthenticated
   /\ Replied
   /\ request.method \in {"resources/templates/list", "resources/read", "tools/call"})
    => IsAuthenticationError(reply)

\* C9 as amended: read-resource and call-tool for each of the six known
\* tools check isAuthenticated() before anything else, arguments included,
\* and reply with an authentication error when it is false;
\* list-resource-templates makes no check and replies with the static
\* template, and call-tool for an unknown tool name makes no check and
\* raises MethodNotFound.
C9_GatedOperations ==
  ~isAuthenticated /\ Replied =>
    /\ IsRead \/ IsKnownToolCall => IsAuthenticationError(reply) /\ calls = <<>>
    /\ request.method = "resources/templates/list" =>
         reply.kind = "resourceTemplates"
    /\ IsToolCall /\ ~IsKnownToolCall =>
         IsMcpError(reply) /\ reply.code = "MethodNotFound"

C9_Witness ==
  /\ ~isAuthenticated
  /\ Replied
  /\ IsToolCall
  /\ request.name = "run_report"
  /\ request.arguments.report_name = JStr("")
  /\ IsAuthenticationError(reply)

\* C10: a call-tool request whose tool name is none of the six known names
\* raises the protocol-level MethodNotFound error, never a tool result, and
\* issues no backend call.
C10_UnknownToolIsMethodNotFound ==
  IsToolCall /\ request.name \notin KnownTools =>
    /\ Replied
    /\ IsMcpError(reply)
    /\ reply.code = "MethodNotFound"
    /\ invoked = <<>>
    /\ calls = <<>>

C10_Witness ==
  /\ isAuthenticated
  /\ Replied
  /\ IsToolCall
  /\ request.name = "delete_document"
  /\ reply.code = "MethodNotFound"

\* C11: nothing is retried: a handler invokes at most one client operation;
\* getDocument, getDocList, createDocument, updateDocument and runReport
\* issue exactly one HTTP request whatever its outcome; getAllDocTypes issues
\* at most two, to two different endpoints; a handler that invokes nothing
\* issues none.
C11_NoRetry ==
  /\ Len(invoked) <= 1
  /\ invoked = <<>> => calls = <<>>
  /\ invoked # <<>> /\ invoked[1].name # "getAllDocTypes" => Len(calls) = 1
  /\ InGetAllDocTypes =>
       /\ Len(calls) \in {1, 2}
       /\ Len(calls) = 2 => calls[1].req.url # calls[2].req.url

C11_Witness ==
  /\ Replied
  /\ invoked # <<>>
  /\ invoked[1].name = "updateDocument"
  /\ result.threw
  /\ Len(calls) = 1
  /\ calls[1].fate = "threw"

\* the query parameter of that name, as a set of at most one value
ParamValues(params, name) == {p[2] : p \in {q \in params : q[1] = name}}

\* C12: the request of getDocList for get_documents carries `fields`
\* (JSON-encoded) iff a non-empty field list is given, `filters`
\* (JSON-encoded) iff a filter mapping is given, the empty mapping included,
\* and `limit_page_length` iff the limit is truthy: a limit of 0 gives the
\* request of no limit.
C12_GetDocListParams ==
  IsToolCall /\ request.name = "get_documents" /\ calls # <<>> =>
    LET a == request.arguments
        p == calls[1].req.params
    IN /\ ParamValues(p, "fields") =
            (IF a.fields = JArr(<<JStr("name")>>) THEN {"[\"name\"]"} ELSE {})
       /\ ParamValues(p, "filters") =
            (IF a.filters = JObj(<<>>) THEN {"{}"}
             ELSE IF a.filters = JObj(<< <<"status", JStr("Open")>> >>)
             THEN {"{\"status\":\"Open\"}"}
             ELSE {})
       /\ ParamValues(p, "limit_page_length") =
            (IF a.limit = JNum(5) THEN {"5"} ELSE {})
       /\ {q[1] : q \in p} \subseteq {"fields", "filters", "limit_page_length"}
       /\ calls[1].req.url = "/api/resource/" \o ToStr(a.doctype)

C12_Witness ==
  /\ IsToolCall
  /\ request.name = "get_documents"
  /\ request.arguments.limit = JNum(0)
  /\ request.arguments.fields = JArr(<<>>)
  /\ request.arguments.filters = JObj(<<>>)
  /\ calls # <<>>
  /\ calls[1].req.params = {<<"filters", "{}">>}

\* text begins with prefix
StartsWith(text, prefix) ==
  Len(text) >= Len(prefix) /\ SubSeq(text, 1, Len(prefix)) = prefix

\* text contains part
Contains(text, part) ==
  \E i \in 1..(Len(text) - Len(part) + 1) :
    SubSeq(text, i, i + Len(part) - 1) = part

\* C15: when get_doctype_fields of an authenticated client finds that
\* getDocList(doctype, {}, ["*"], 1) returned an empty list, or nothing, the
\* reply is a tool result with isError set whose text begins
\* "No documents found for {doctype}", not a protocol error.
C15_NoDocumentsIsToolError ==
  /\ authenticated
  /\ Replied
  /\ IsToolCall
  /\ request.name = "get_doctype_fields"
  /\ invoked # <<>>
  /\ ~result.threw
  /\ result.value \in {Undef, JNull, JArr(<<>>)}
  => /\ invoked = <<[name |-> "getDocList",
                     args |-> <<JStr(ToStr(request.arguments.doctype)),
                                JObj(<<>>),
                                JArr(<<JStr("*")>>), JNum(1)>>]>>
     /\ IsToolError(reply)
     /\ StartsWith(reply.text.s,
                   "No documents found for " \o ToStr(request.arguments.doctype))

C15_Witness ==
  /\ authenticated
  /\ Replied
  /\ IsToolCall
  /\ request.name = "get_doctype_fields"
  /\ invoked # <<>>
  /\ ~result.threw
  /\ result.value = JArr(<<>>)
  /\ reply = ToolError("No documents found for Customer. Cannot determine fields.")

\* C16: when create_document of an authenticated client is called with
\* doctype and data and createDocument returns the created document r, the
\* reply is a tool result without isError whose text is
\* "Created {doctype}: {r.name}", an empty line and the JSON of r indented
\* by two spaces.
C16_CreatedText ==
  /\ authenticated
  /\ Replied
  /\ IsToolCall
  /\ request.name = "create_document"
  /\ invoked # <<>>
  /\ ~result.threw
  /\ ~Nullish(result.value)
  => /\ reply.kind = "result"
     /\ ~reply.isError
     /\ reply.text.s = "Created " \o ToStr(request.arguments.doctype) \o ": "
                       \o ToStr(Get(result.value, "name")) \o "\n\n"
                       \o JSONPretty(result.value, "")
     /\ result.value = Doc /\ request.arguments.doctype = JStr("Customer") =>
          reply.text.s = "Created Customer: CUST-0001\n\n"
                         \o "{\n  \"name\": \"CUST-0001\",\n  \"value\": \"Lead\"\n}"

C16_Witness ==
  /\ authenticated
  /\ Replied
  /\ IsToolCall
  /\ request.name = "create_document"
  /\ ~result.threw
  /\ result.value = Doc
  /\ reply.kind = "result"
  /\ ~reply.isError

\* the read-resource request reached getDocument
ReadInvokedGetDocument ==
  /\ authenticated
  /\ Replied
  /\ IsRead
  /\ invoked # <<>>
  /\ invoked[1].name = "getDocument"

\* C19: when an authenticated read of erpnext://{doctype}/{name} gets from
\* getDocument no result (the data of the body is missing, null or another
\* falsy value), the reply is the McpError InvalidRequest
\* "Invalid ERPNext resource URI: {uri}", not contents.
C19_NoResultIsInvalidUri ==
  /\ ReadInvokedGetDocument
  /\ ~result.threw
  /\ result.value \in {Undef, JNull, JNum(0)}
  => reply = McpError("InvalidRequest",
                      "Invalid ERPNext resource URI: " \o UriText(request.uri))

C19_Witness ==
  /\ ReadInvokedGetDocument
  /\ ~result.threw
  /\ result.value = JNull
  /\ IsMcpError(reply)
  /\ reply.code = "InvalidRequest"

\* C20: when an authenticated read of erpnext://{doctype}/{name} has its
\* getDocument call fail, the reply is an McpError InvalidRequest whose
\* message begins "Failed to fetch {doctype} {name}:" and contains the
\* message of the failure; it is neither contents nor the
\* "Invalid ERPNext resource URI" error.
C20_FailureIsRewrapped ==
  ReadInvokedGetDocument /\ result.threw =>
    /\ IsMcpError(reply)
    /\ reply.code = "InvalidRequest"
    /\ StartsWith(reply.message,
                  "Failed to fetch " \o invoked[1].args[1].s \o " "
                  \o invoked[1].args[2].s \o ":")
    /\ Contains(reply.message, result.message)
    /\ ~StartsWith(reply.message, "Invalid ERPNext resource URI")

C20_Witness ==
  /\ ReadInvokedGetDocument
  /\ result.threw
  /\ calls[1].fate = "threw"
  /\ IsMcpError(reply)
  /\ Contains(reply.message, "Network Error")

\* text ends with a slash
EndsWithSlash(text) ==
  Len(text) > 0 /\ SubSeq(text, Len(text), Len(text)) = "/"

\* text without its last character
WithoutLast(text) == SubSeq(text, 1, Len(text) - 1)

\* the URL of the request has two slashes where the base URL meets the path
DoubledAtJoin(req) ==
  SubSeq(RequestUrl(req.url), Len(baseUrl), Len(baseUrl) + 1) = "//"

\* C13 as stated: for every ERPNEXT_URL that ends with a slash, the base URL
\* is the URL without its last slash, and no request URL has a doubled slash
\* where the base URL meets "/api/...".
C13_TrailingSlashRemoved ==
  ~exited /\ EndsWithSlash(OrEmpty(erpnextUrl)) =>
    /\ baseUrl = WithoutLast(erpnextUrl.s)
    /\ \A i \in 1..Len(calls) : ~DoubledAtJoin(calls[i].req)

\* C13 (amended): for every ERPNEXT_URL that ends with a slash, the base URL
\* is the URL without its last slash; a request URL has a doubled slash where
\* the base URL meets "/api/..." exactly when the configured URL ended with
\* two slashes or more, and never when it ended with exactly one.
C13_ExactlyOneSlashRemoved ==
  ~exited /\ EndsWithSlash(OrEmpty(erpnextUrl)) =>
    /\ baseUrl = WithoutLast(erpnextUrl.s)
    /\ \A i \in 1..Len(calls) :
         /\ StartsWith(RequestUrl(calls[i].req.url), baseUrl \o "/api/")
         /\ DoubledAtJoin(calls[i].req) <=> EndsWithSlash(WithoutLast(erpnextUrl.s))

C13_Witness ==
  /\ erpnextUrl = JStr("http://erp/")
  /\ baseUrl = "http://erp"
  /\ calls # <<>>
  /\ RequestUrl(calls[1].req.url) = "http://erp/api/resource/DocType"

\* C14: when ERPNEXT_URL is unset or empty, the construction of the client
\* fails: the process has ended, no handler is registered, the transport is
\* not connected, no HTTP request was issued and no request is ever handled.
C14_NoUrlNeverServes ==
  ~Truthy(erpnextUrl) =>
    /\ exited
    /\ handlers = {}
    /\ ~connected
    /\ httpCount = 0
    /\ calls = <<>>
    /\ pc = "idle"
    /\ request = NoRequest
    /\ reply = NoReply

C14_Witness ==
  /\ erpnextUrl = JStr("")
  /\ exited
  /\ handlers = {}
  /\ ~connected

\* the frame of the request had it been handled alone and received the
\* same answers
Alone(req, heard) ==
  LET begun == Begun(req, BeginOf(req))
  IN IF heard = <<>> THEN begun
     ELSE IF Len(heard) = 1 THEN Answered(begun, heard[1])
     ELSE Answered(Answered(begun, heard[1]), heard[2])

\* C17: however overlapping handlers interleave at their awaits, none writes
\* the base URL, the credentials of the default headers, the authenticated
\* flag or doctypeCache; each handler is where, and replies what, it would
\* had its request been handled alone with the same answers of the backend;
\* and a suspended handler keeps no other request from arriving, being
\* answered or being replied to.
C17_HandlersIndependent ==
  /\ [][UNCHANGED <<baseUrl, apiKey, apiSecret, authenticated, doctypeCache>>]_vars
  /\ [](\A slot \in Slots :
          frames[slot].pc # "idle" =>
            frames[slot] = Alone(frames[slot].request, frames[slot].heard))
  /\ [](\A slot \in Slots : \A other \in Slots \ {slot} :
          frames[slot].pc = "await" =>
            /\ frames[other].pc = "idle" /\ connected /\ httpCount < MaxHttp
                 => ENABLED Arrive(other)
            /\ frames[other].pc = "await" => ENABLED Answer(other)
            /\ frames[other].pc = "replied" => ENABLED Deliver(other))

C17_Witness ==
  /\ frames[1].pc = "await"
  /\ frames[1].request.method = "tools/call"
  /\ Len(frames[1].calls) = 2
  /\ frames[2].pc = "replied"
  /\ frames[2].request.method = "resources/read"
  /\ frames[2].heard # <<>>

\* C18: a handler has no timeout and no cancellation: it leaves its await
\* only by an answer of the backend, so a request whose backend call is never
\* answered is never replied to; when every HTTP request is answered in the
\* end, every suspended handler replies; and a reply, once given, stays the
\* one reply of its request.
C18_ReplyOnlyAndAlwaysAfterAnswer ==
  /\ [][\A slot \in Slots :
          frames[slot].pc = "await" /\ frames'[slot] # frames[slot] =>
            /\ Len(frames'[slot].heard) = Len(frames[slot].heard) + 1
            /\ frames'[slot].pc \in {"await", "replied"}]_vars
  /\ [][\A slot \in Slots :
          frames[slot].pc = "replied" =>
            frames'[slot] = frames[slot] \/ frames'[slot] = IdleFrame]_vars
  /\ \A slot \in Slots :
       (frames[slot].pc = "await") ~> (frames[slot].pc = "replied")

C18_Witness ==
  /\ frames[1].pc = "replied"
  /\ frames[1].heard # <<>>
  /\ frames[1].reply # NoReply
  /\ frames[2].pc = "await"
  /\ frames[2].reply = NoReply

\* a required argument of the tool is absent, null or empty
RequiredArgumentMissing ==
  \E a \in RequiredArguments(request.name) :
    request.arguments[a] \in {Undef, JNull, JStr("")}

\* C21: every known tool asks for authentication before it looks at its
\* arguments: the call of an unauthenticated client that lacks a required
\* argument is answered by the tool result with isError set and the
\* "Not authenticated" text, never by an InvalidParams error, and reaches no
\* client operation.
C21_AuthenticationBeforeValidation ==
  ~isAuthenticated /\ IsKnownToolCall /\ RequiredArgumentMissing =>
    /\ Replied
    /\ IsToolError(reply)
    /\ reply.text = JStr(NotAuthenticatedText)
    /\ invoked = <<>>

C21_Witness ==
  /\ ~isAuthenticated
  /\ IsToolCall
  /\ request.name = "create_document"
  /\ request.arguments.doctype = Undef
  /\ request.arguments.data = Undef
  /\ Replied
  /\ IsToolError(reply)

\* the frame is in getAllDocTypes and the last answer it heard is a 2xx
\* response whose body lacks the field of its tier
HeardBodyWithoutField(f) ==
  /\ f.invoked # <<>>
  /\ f.invoked[1].name = "getAllDocTypes"
  /\ f.heard # <<>>
  /\ LET last == f.heard[Len(f.heard)]
         field == IF Len(f.heard) = 1 THEN "data" ELSE "results"
     IN /\ last.t = "resolve"
        /\ Get(last.data, field) = Undef

\* C22: in getAllDocTypes a 2xx answer to tier 1 whose body has no data
\* field, or to tier 2 whose body has no results field, is a success: the
\* operation returns the empty list at once, issues no further request and
\* does not return the list of 14 names.
C22_MissingFieldIsEmptyList ==
  /\ \A slot \in Slots :
       HeardBodyWithoutField(frames[slot]) =>
         /\ frames[slot].pc = "replied"
         /\ frames[slot].result = Return(JArr(<<>>))
         /\ Len(frames[slot].calls) = Len(frames[slot].heard)
         /\ frames[slot].calls[Len(frames[slot].calls)].fate = "returned"
  /\ \A body \in Bodies :
       LET answer == [t |-> "resolve", data |-> body]
       IN /\ Get(body, "data") = Undef =>
               getAllDocTypesTier1(answer) = Return(JArr(<<>>))
          /\ Get(body, "results") = Undef =>
               getAllDocTypesTier2(answer) = Return(JArr(<<>>))

C22_Witness ==
  /\ HeardBodyWithoutField(frames[1])
  /\ Len(frames[1].heard) = 2
  /\ frames[1].result = Return(JArr(<<>>))
  /\ HeardBodyWithoutField(frames[2])
  /\ Len(frames[2].heard) = 1
  /\ frames[2].pc = "replied"

\* C23: every error that leaves the read-resource handler is an McpError of
\* code InvalidRequest or InternalError, whatever the URI, the URIs of the
\* form erpnext://{doctype}/{name} whose segments fail to percent-decode
\* included.
C23_ReadErrorsAreMcpErrors ==
  IsRead /\ Replied /\ reply.kind = "error" =>
    /\ IsMcpError(reply)
    /\ reply.code \in {"InvalidRequest", "InternalError"}

====
